---- MODULE Spec2Model ----
(***************************************************************************)
(* Model of the bounty polling bridge (src/index.ts).                      *)
(*                                                                         *)
(* The process fetches the bounty list from the upstream API, diffs it     *)
(* against the state file (id -> last seen status), POSTs webhook events   *)
(* for new and changed bounties and rewrites the state file.  A poll cycle *)
(* is started once at startup, by a recurring timer, and by POST /poll.    *)
(* JavaScript runs one poll cycle until its next `await`; the cycles       *)
(* interleave at those points.  The steps below are at most that coarse:   *)
(* a step that touches only a cycle's own locals commutes with every step  *)
(* of another cycle.                                                       *)
(***************************************************************************)
EXTENDS Integers, Sequences, FiniteSets, TLC

\* ------------------------------------------------------------------ bounds
\* Longest bounty list the upstream returns in the model.
MaxLen == 2
\* Number of poll cycles started in one behaviour.
MaxCycles == 3
\* The same two bounds for the runs in which poll cycles overlap.
MaxRaceLen == 1
MaxRaceCycles == 2

\* Poll cycles that can be in flight at once (activations of poll()).
Procs == {"p1", "p2"}

\* ------------------------------------------------------- JavaScript values
\* The value of a missing property (state.bounties[id], STATUS_TO_EVENT[s]).
Undefined == "<undefined>"
\* Number("abc"): not a number; every comparison with it is false.
NaN == [nan |-> TRUE, v |-> 0]

\* String.prototype.toLowerCase on the tag strings of the model.
toLowerCase(t) ==
    CASE t = "Coding" -> "coding"
      [] t = "CODING" -> "coding"
      [] t = "Art"    -> "art"
      [] OTHER        -> t

\* Number(bounty.reward) on the reward strings of the model.
Number(s) ==
    CASE s = "2000000" -> [nan |-> FALSE, v |-> 2000000]
      [] s = "500000"  -> [nan |-> FALSE, v |-> 500000]
      [] s = ""        -> [nan |-> FALSE, v |-> 0]
      [] OTHER         -> NaN

\* Elements of a sequence.
Range(s) == {s[i] : i \in 1..Len(s)}

\* ------------------------------------------------------------ configuration
\* Environments the process can be started with (read once, lines 3-14):
\* the comma-separated values already split and trimmed.
Envs ==
    { [WEBHOOK_URLS |-> <<>>,             FILTER_TAGS |-> <<>>,         FILTER_MIN_REWARD |-> 0],
      [WEBHOOK_URLS |-> <<"u1", "u2">>,   FILTER_TAGS |-> <<>>,         FILTER_MIN_REWARD |-> 0],
      [WEBHOOK_URLS |-> <<"u1", "u2">>,   FILTER_TAGS |-> <<"Coding">>, FILTER_MIN_REWARD |-> 1],
      [WEBHOOK_URLS |-> <<>>,             FILTER_TAGS |-> <<>>,         FILTER_MIN_REWARD |-> 1] }

\* ---------------------------------------------------------------- upstream
Ids == {"1", "2"}

\* Bounty records the upstream can return (the fields poll() reads).  The
\* status is an open string: "" and "archived" are not in STATUS_TO_EVENT.
Bounties ==
    { [id |-> "1", status |-> s, tags |-> <<"CODING">>, reward |-> "2000000"] :
          s \in {"", "open", "claimed", "completed", "archived"} }
    \cup
    { [id |-> "2", status |-> "open",    tags |-> <<"Art">>,            reward |-> "abc"],
      [id |-> "2", status |-> "claimed", tags |-> <<"art", "Coding">>,  reward |-> "500000"] }

\* The lists GET /bounties can return: any order, identifiers may repeat.
BountyLists == UNION { [1..n -> Bounties] : n \in 0..MaxLen }

\* The bounties of the runs in which poll cycles overlap.
RaceBounties == {b \in Bounties : b.status \in {"open", "claimed"}}

\* The loop variable `bounty` outside an iteration.
NoBounty == [id |-> "-", status |-> "-", tags |-> <<>>, reward |-> "-"]

\* `upstream` when the model lets every GET return any list.
Varies == <<[id |-> "*", status |-> "*", tags |-> <<>>, reward |-> "*"]>>

\* -------------------------------------------------------------- state store
\* State.bounties: a partial map id -> status.
EmptyState == [x \in {} |-> ""]

\* The state file: absent, unparseable, or the JSON of a State.
MissingFile == [kind |-> "missing", bounties |-> EmptyState]
CorruptFile == [kind |-> "corrupt", bounties |-> EmptyState]
JsonFile(s) == [kind |-> "json", bounties |-> s]

\* loadState(): the parsed record, or { bounties: {} } when the file is
\* missing or does not parse.
loadState(f) == IF f.kind = "json" THEN f.bounties ELSE EmptyState

\* state.bounties[id]
Get(s, id) == IF id \in DOMAIN s THEN s[id] ELSE Undefined

\* state.bounties[id] = v
Put(s, id, v) == [x \in (DOMAIN s) \cup {id} |-> IF x = id THEN v ELSE s[x]]

\* Mutant: the save keeps the entries of the file that the record lacks.
saveState_merge(s, f) ==
    JsonFile([x \in (DOMAIN s) \cup (DOMAIN f.bounties) |->
                 IF x \in DOMAIN s THEN s[x] ELSE f.bounties[x]])

\* saveState(state) when writeFileSync succeeds: the whole record replaces
\* the content of the file (f is the content before the write).
saveState(s, f) == JsonFile(s)

\* ------------------------------------------------------------ filter policy
FILTER_TAGS(env) == [i \in 1..Len(env.FILTER_TAGS) |-> toLowerCase(env.FILTER_TAGS[i])]

\* usdc < FILTER_MIN_REWARD, where usdc = Number(reward) / 1e6; the minimum
\* of the model is a whole number of USDC, so the comparison is made in
\* micro-units.  NaN compares false.
BelowMinReward(reward, min) ==
    LET n == Number(reward) IN ~n.nan /\ n.v < min * 1000000

\* Mutant: the minimum reward is not checked.
matchesFilters_tagsOnly(bounty, env) ==
    Len(FILTER_TAGS(env)) > 0 =>
        \E i \in 1..Len(bounty.tags) :
            toLowerCase(bounty.tags[i]) \in Range(FILTER_TAGS(env))

matchesFilters(bounty, env) ==
    /\ Len(FILTER_TAGS(env)) > 0 =>
          \E i \in 1..Len(bounty.tags) :
              toLowerCase(bounty.tags[i]) \in Range(FILTER_TAGS(env))
    /\ env.FILTER_MIN_REWARD > 0 =>
          ~BelowMinReward(bounty.reward, env.FILTER_MIN_REWARD)

\* ------------------------------------------------------- status -> event
STATUS_TO_EVENT(status) ==
    CASE status = "open"           -> "bounty.created"
      [] status = "claimed"        -> "bounty.claimed"
      [] status = "submitted"      -> "bounty.submitted"
      [] status = "completed"      -> "bounty.completed"
      [] status = "payment_failed" -> "bounty.payment_failed"
      [] OTHER                     -> Undefined

\* `!prevStatus`: undefined and the empty string are falsy.
IsFalsy(v) == v = Undefined \/ v = ""

\* Mutant: a new bounty is announced by the event of its status.
NewBountyEvent_byStatus(bounty) ==
    IF STATUS_TO_EVENT(bounty.status) # Undefined
    THEN STATUS_TO_EVENT(bounty.status)
    ELSE "bounty.created"

\* The `event` of the payload built for a new bounty (line 128).
NewBountyEvent(bounty) == "bounty.created"

\* ------------------------------------------------------- webhook dispatch
\* How the POST to one destination ends: a 2xx response, a response with
\* another status (fetch resolves), or a transport error (fetch rejects).
Outcomes == {"ok", "http_error", "transport_error"}

\* No POST made yet.
NoPosts == [x \in {} |-> 0]

\* One more POST in the record of the POSTs made.
Sent(log, post) ==
    IF post \in DOMAIN log
    THEN [log EXCEPT ![post] = @ + 1]
    ELSE [x \in (DOMAIN log) \cup {post} |-> IF x = post THEN 1 ELSE log[x]]

\* ------------------------------------------------------------ HTTP server
\* Requests the server can get: the methods and the paths of the model.
Methods == {"GET", "POST", "DELETE"}
Paths == {"/health", "/bounties", "/poll", "/other"}

\* Lines 164-195: the branch of the handler a request takes.
Route(method, pathname) ==
    IF pathname = "/health" THEN "health"
    ELSE IF pathname = "/bounties" /\ method = "POST" THEN "proxy"
    ELSE IF pathname = "/poll" /\ method = "POST" THEN "poll"
    ELSE "notfound"

\* No request is being handled.
NoRequest ==
    [pc |-> "idle", method |-> "-", path |-> "-", proc |-> "-",
     status |-> 0, body |-> [kind |-> "-"]]

\* How the upstream answers the proxied POST /bounties: a JSON body with a
\* status, a body that is not JSON (res.json() rejects), or no answer at
\* all (fetch rejects).
ProxyOutcomes ==
    { [kind |-> "json", status |-> 201], [kind |-> "json", status |-> 400],
      [kind |-> "bad_body", status |-> 500], [kind |-> "transport_error", status |-> 0] }

\* -------------------------------------------------------------------- state
VARIABLES
    env,        \* the configuration read at startup
    file,       \* content of the state file
    timer,      \* "unstarted", "initial" (startup poll running), "armed"
    ncycles,    \* poll cycles started so far
    poll,       \* the activations of poll(), see Idle
    upstream,   \* the list the API serves when it is held fixed, or Varies
    lostUpdate, \* history: a save reverted an entry written by another cycle
    http        \* the HTTP request the model follows, see NoRequest

vars == <<env, file, timer, ncycles, poll, upstream, lostUpdate, http>>

\* An activation of poll() that is not running.
Idle ==
    [ pc       |-> "idle",      \* where it is
      kind     |-> "-",         \* its trigger: "startup", "timer", "manual"
      st       |-> EmptyState,  \* its `state.bounties`
      created  |-> 0,
      changed  |-> 0,
      errors   |-> 0,
      left     |-> 0,           \* bounties of the fetched list the for loop
                                \* has not reached yet
      cur      |-> NoBounty,    \* the loop variable `bounty`
      ev       |-> "-",         \* event of the payload being delivered
      branch   |-> "-",         \* the branch that called fireWebhook
      j        |-> 0,           \* position of fireWebhook's loop (1-based)
      fetched  |-> FALSE,       \* history: fetchBounties() returned a list
      skipped  |-> 0,           \* history: bounties the filter rejected
      src      |-> "-",         \* history: kind of the file loadState() read
      loaded   |-> EmptyState,  \* history: what loadState() returned
      sent     |-> <<>>,        \* history: destinations fireWebhook POSTed to
      failed   |-> {},          \* history: those whose POST failed
      posted   |-> 0,           \* history: POSTs made by this cycle
      posts    |-> NoPosts,     \* history: those POSTs,
                                \* [event, id, url] -> how many times
      writes   |-> 0 ]          \* history: writes of the file by this cycle

Init ==
    /\ env \in Envs
    /\ file = MissingFile
    /\ timer = "unstarted"
    /\ ncycles = 0
    /\ poll = [p \in Procs |-> Idle]
    /\ upstream = Varies
    /\ lostUpdate = FALSE
    /\ http = NoRequest

\* The activation p becomes a.
Set(p, a) == poll' = [poll EXCEPT ![p] = a]

\* ---------------------------------------------------------------- poll()
\* The activation record a new call of poll() gets: the idle ones are
\* interchangeable, so the first is taken.
FreeSlot == IF poll["p1"].pc = "idle" THEN "p1" ELSE "p2"

\* Lines 110-116: loadState(), the counters, and the GET is sent.
Begin(p, k) ==
    /\ poll[p].pc = "idle"
    /\ p = FreeSlot
    /\ ncycles < MaxCycles
    /\ ncycles' = ncycles + 1
    /\ Set(p, [Idle EXCEPT !.pc = "fetching", !.kind = k, !.src = file.kind,
                           !.st = loadState(file), !.loaded = loadState(file)])
    /\ UNCHANGED <<env, file, upstream, lostUpdate>>

\* Mutant: setInterval is called before the initial poll is awaited.
StartupPoll_armsFirst(p) ==
    /\ timer = "unstarted"
    /\ timer' = "armed"
    /\ Begin(p, "startup")
    /\ UNCHANGED http

\* Line 210: the initial poll, called once the server listens.
StartupPoll(p) ==
    /\ timer = "unstarted"
    /\ timer' = "initial"
    /\ Begin(p, "startup")
    /\ UNCHANGED http

\* Lines 216-224: the interval timer fires and calls poll().
TimerTick(p) ==
    /\ timer = "armed"
    /\ UNCHANGED <<timer, http>>
    /\ Begin(p, "timer")

\* Lines 189-193: POST /poll calls poll() (a request the model does not
\* follow to its response).
ManualPoll(p) ==
    /\ timer # "unstarted"
    /\ UNCHANGED <<timer, http>>
    /\ Begin(p, "manual")

\* Lines 104-106, 116: the GET succeeded and its body decoded to a list of
\* n bounties.  The model draws each bounty when the loop reaches it; with
\* the upstream held fixed the list is `upstream`.
FetchOk(p, n) ==
    /\ poll[p].pc = "fetching"
    /\ n \in 0..MaxLen
    /\ upstream # Varies => n = Len(upstream)
    /\ Set(p, [poll[p] EXCEPT !.pc = "loop", !.left = n, !.fetched = TRUE])
    /\ UNCHANGED <<env, file, timer, ncycles, upstream, lostUpdate, http>>

\* Line 118: the for loop takes the next bounty of the list.
NextBounty(p, b) ==
    /\ poll[p].pc = "loop"
    /\ poll[p].left > 0
    /\ b \in Bounties
    /\ upstream # Varies => b = upstream[Len(upstream) - poll[p].left + 1]
    /\ Set(p, [poll[p] EXCEPT !.pc = "body", !.cur = b, !.left = @ - 1])
    /\ UNCHANGED <<env, file, timer, ncycles, upstream, lostUpdate, http>>

\* Mutant: the state is saved in a `finally`, also when the fetch failed.
FetchFail_saves(p) ==
    /\ poll[p].pc = "fetching"
    /\ Set(p, [poll[p] EXCEPT !.pc = "done", !.errors = @ + 1, !.writes = @ + 1])
    /\ file' = saveState(poll[p].st, file)
    /\ UNCHANGED <<env, timer, ncycles, upstream, lostUpdate, http>>

\* Lines 105, 150-155: the GET failed (status not ok, transport error or
\* undecodable body); the catch block counts it and poll() returns.
FetchFail(p) ==
    /\ poll[p].pc = "fetching"
    /\ Set(p, [poll[p] EXCEPT !.pc = "done", !.errors = @ + 1])
    /\ UNCHANGED <<env, file, timer, ncycles, upstream, lostUpdate, http>>

\* The bounty of the loop's current iteration.
Cur(a) == a.cur

\* Mutant: an entry the record already has is not overwritten.
Store_ifAbsent(a) ==
    IF Cur(a).id \in DOMAIN a.st
    THEN a
    ELSE [a EXCEPT !.st = Put(a.st, Cur(a).id, Cur(a).status)]

\* Lines 125 and 144: state.bounties[bounty.id] = bounty.status
Store(a) == [a EXCEPT !.st = Put(a.st, Cur(a).id, Cur(a).status)]

\* Mutant: created is counted inside `if (WEBHOOK_URLS.length > 0)`.
CountCreated_ifDestinations(a) ==
    IF Len(env.WEBHOOK_URLS) > 0 THEN [a EXCEPT !.created = @ + 1] ELSE a

\* Line 133: created++
CountCreated(a) == [a EXCEPT !.created = @ + 1]

\* Line 145: changed++
CountChanged(a) == [a EXCEPT !.changed = @ + 1]

\* Lines 119, 147: the iteration is over, back to the loop's header.
Advance(a) == [a EXCEPT !.pc = "loop", !.cur = NoBounty]

\* The POST of activation a's payload to WEBHOOK_URLS[n] (lines 89-93).
Post(a, n, event) ==
    [event |-> event, id |-> Cur(a).id, url |-> env.WEBHOOK_URLS[n]]

\* Lines 85-89: fireWebhook(payload) sends the first POST and awaits it.
StartDispatch(p, a, event, br) ==
    Set(p, [a EXCEPT !.pc = "posting", !.ev = event, !.branch = br, !.j = 1,
                     !.sent = <<env.WEBHOOK_URLS[1]>>, !.posted = @ + 1,
                     !.posts = Sent(@, Post(a, 1, event))])

\* Lines 119-146: the body of the for loop, up to its first await.
ProcessBounty(p) ==
    /\ poll[p].pc = "body"
    /\ LET a == poll[p]
           bounty == Cur(a)
           prevStatus == Get(a.st, bounty.id)
       IN  IF ~matchesFilters(bounty, env)
           THEN Set(p, Advance([a EXCEPT !.skipped = @ + 1]))
           ELSE IF IsFalsy(prevStatus)
           THEN IF Len(env.WEBHOOK_URLS) > 0
                THEN StartDispatch(p, Store(a), NewBountyEvent(bounty), "new")
                ELSE Set(p, Advance(CountCreated(Store(a))))
           ELSE IF prevStatus # bounty.status
           THEN LET event == STATUS_TO_EVENT(bounty.status)
                IN  IF event # Undefined /\ Len(env.WEBHOOK_URLS) > 0
                    THEN StartDispatch(p, a, event, "changed")
                    ELSE Set(p, Advance(CountChanged(Store(a))))
           ELSE Set(p, Advance(a))
    /\ UNCHANGED <<env, file, timer, ncycles, upstream, lostUpdate, http>>

\* Lines 87-93: the for loop of fireWebhook moves to the next destination.
NextDestination(p, a) ==
    Set(p, [a EXCEPT !.j = @ + 1, !.posted = @ + 1,
                     !.sent = Append(@, env.WEBHOOK_URLS[a.j + 1]),
                     !.posts = Sent(@, Post(a, a.j + 1, a.ev))])

\* fireWebhook returned: the rest of the branch that awaited it
\* (line 133, or lines 144-145) and the loop's next iteration.
FinishDispatch(p, a) ==
    LET back == [a EXCEPT !.ev = "-", !.branch = "-", !.j = 0, !.sent = <<>>,
                          !.failed = {}]
    IN  IF a.branch = "new"
        THEN Set(p, Advance(CountCreated(back)))
        ELSE Set(p, Advance(CountChanged(Store(back))))

\* The destination of the awaited POST joins `failed` unless it answered 2xx.
Settled(a, outcome) ==
    [a EXCEPT !.failed = IF outcome = "ok" THEN @
                         ELSE @ \cup {env.WEBHOOK_URLS[a.j]}]

\* Mutant: the try/catch is around the loop, a rejected POST ends
\* fireWebhook and reaches the catch block of poll().
PostResponse_throws(p, outcome) ==
    /\ poll[p].pc = "posting"
    /\ outcome \in Outcomes
    /\ IF outcome = "transport_error"
       THEN Set(p, [Settled(poll[p], outcome) EXCEPT !.pc = "done", !.errors = @ + 1])
       ELSE IF poll[p].j < Len(env.WEBHOOK_URLS)
       THEN NextDestination(p, Settled(poll[p], outcome))
       ELSE FinishDispatch(p, Settled(poll[p], outcome))
    /\ UNCHANGED <<env, file, timer, ncycles, upstream, lostUpdate, http>>

\* Mutant: a POST that did not get a 2xx answer is sent once more.
PostResponse_retries(p, outcome) ==
    /\ poll[p].pc = "posting"
    /\ outcome \in Outcomes
    /\ IF outcome # "ok" /\ env.WEBHOOK_URLS[poll[p].j] \notin poll[p].failed
       THEN Set(p, [Settled(poll[p], outcome) EXCEPT
                       !.posted = @ + 1,
                       !.sent = Append(@, env.WEBHOOK_URLS[poll[p].j]),
                       !.posts = Sent(@, Post(poll[p], poll[p].j, poll[p].ev))])
       ELSE IF poll[p].j < Len(env.WEBHOOK_URLS)
       THEN NextDestination(p, Settled(poll[p], outcome))
       ELSE FinishDispatch(p, Settled(poll[p], outcome))
    /\ UNCHANGED <<env, file, timer, ncycles, upstream, lostUpdate, http>>

\* Lines 88-99: the awaited POST settles.  A response of any status is
\* logged, a rejection is caught and logged; either way the loop goes on.
PostResponse(p, outcome) ==
    /\ poll[p].pc = "posting"
    /\ outcome \in Outcomes
    /\ IF poll[p].j < Len(env.WEBHOOK_URLS)
       THEN NextDestination(p, Settled(poll[p], outcome))
       ELSE FinishDispatch(p, Settled(poll[p], outcome))
    /\ UNCHANGED <<env, file, timer, ncycles, upstream, lostUpdate, http>>

\* Line 89: the destination never answers and no timeout is set on the
\* request: the await does not settle.
PostHang(p) ==
    /\ poll[p].pc = "posting"
    /\ Set(p, [poll[p] EXCEPT !.pc = "hung"])
    /\ UNCHANGED <<env, file, timer, ncycles, upstream, lostUpdate, http>>

\* The save reverts an entry that another cycle wrote after this cycle
\* loaded the state and that this cycle did not touch itself.
Stale(a) ==
    /\ file.kind = "json"
    /\ \E id \in DOMAIN file.bounties :
          /\ Get(a.loaded, id) # file.bounties[id]
          /\ Get(a.st, id) = Get(a.loaded, id)

\* Mutant: the state is saved only when the cycle counted something.
Save_ifChanged(p) ==
    /\ poll[p].pc = "loop"
    /\ poll[p].left = 0
    /\ IF poll[p].created + poll[p].changed > 0
       THEN /\ file' = saveState(poll[p].st, file)
            /\ Set(p, [poll[p] EXCEPT !.pc = "done", !.writes = @ + 1])
       ELSE /\ file' = file
            /\ Set(p, [poll[p] EXCEPT !.pc = "done"])
    /\ lostUpdate' = lostUpdate
    /\ UNCHANGED <<env, timer, ncycles, upstream, http>>

\* Line 149: the loop is over and writeFileSync succeeds.
Save(p) ==
    /\ poll[p].pc = "loop"
    /\ poll[p].left = 0
    /\ file' = saveState(poll[p].st, file)
    /\ lostUpdate' = (lostUpdate \/ Stale(poll[p]))
    /\ Set(p, [poll[p] EXCEPT !.pc = "done", !.writes = @ + 1])
    /\ UNCHANGED <<env, timer, ncycles, upstream, http>>

\* Mutant: saveState catches the error of writeFileSync and logs it.
SaveFail_swallowed(p) ==
    /\ poll[p].pc = "loop"
    /\ poll[p].left = 0
    /\ file' \in {file, CorruptFile}
    /\ Set(p, [poll[p] EXCEPT !.pc = "done", !.writes = @ + 1])
    /\ UNCHANGED <<env, timer, ncycles, upstream, lostUpdate, http>>

\* Lines 149-153: writeFileSync throws (the file is left as it was, or
\* truncated); the catch block counts the error.
SaveFail(p) ==
    /\ poll[p].pc = "loop"
    /\ poll[p].left = 0
    /\ file' \in {file, CorruptFile}
    /\ Set(p, [poll[p] EXCEPT !.pc = "done", !.errors = @ + 1, !.writes = @ + 1])
    /\ UNCHANGED <<env, timer, ncycles, upstream, lostUpdate, http>>

\* Line 155: poll() resolves with the counters.  After the initial poll
\* the interval timer is armed (lines 210-216).
Resolve(p) ==
    /\ poll[p].pc = "done"
    /\ timer' = IF poll[p].kind = "startup" THEN "armed" ELSE timer
    /\ Set(p, Idle)
    /\ UNCHANGED <<env, file, ncycles, upstream, lostUpdate>>

\* poll() returns to a caller other than the request the model follows.
Return(p) ==
    /\ ~(http.pc = "polling" /\ http.proc = p)
    /\ Resolve(p)
    /\ UNCHANGED http

\* ------------------------------------------------------- Bun.serve fetch
\* Lines 165-170: the body of the health report (pollInterval left out).
HealthReport ==
    [kind |-> "health", status |-> "ok", webhooks |-> Len(env.WEBHOOK_URLS),
     filterTags |-> FILTER_TAGS(env)]

\* Response.json(body, {status}) answers the request.
Respond(status, body) ==
    [http EXCEPT !.pc = "responded", !.status = status, !.body = body]

\* Lines 161-195: a request arrives at a branch that does not call poll().
\* The server answers requests once the module's top level has reached its
\* first await, the initial poll's.
Request(method, pathname) ==
    /\ http.pc = "idle"
    /\ timer # "unstarted"
    /\ Route(method, pathname) # "poll"
    /\ LET req == [NoRequest EXCEPT !.method = method, !.path = pathname]
       IN  http' = CASE Route(method, pathname) = "health" ->
                          [req EXCEPT !.pc = "responded", !.status = 200,
                                      !.body = HealthReport]
                     [] Route(method, pathname) = "proxy" ->
                          [req EXCEPT !.pc = "proxying"]
                     [] OTHER ->
                          [req EXCEPT !.pc = "responded", !.status = 404,
                                      !.body = [kind |-> "error", error |-> "Not found"]]
    /\ UNCHANGED <<env, file, timer, ncycles, poll, upstream, lostUpdate>>

\* Lines 175-186: the proxied POST to the upstream settles.
ProxyResponse(o) ==
    /\ http.pc = "proxying"
    /\ o \in ProxyOutcomes
    /\ http' = IF o.kind = "json"
               THEN Respond(o.status, [kind |-> "upstream"])
               ELSE Respond(502, [kind |-> "error",
                                  error |-> "Failed to proxy bounty creation"])
    /\ UNCHANGED <<env, file, timer, ncycles, poll, upstream, lostUpdate>>

\* Lines 189-191: a request arrives at the /poll branch, which calls poll().
PollRequest(p, method, pathname) ==
    /\ http.pc = "idle"
    /\ timer # "unstarted"
    /\ Route(method, pathname) = "poll"
    /\ UNCHANGED timer
    /\ Begin(p, "manual")
    /\ http' = [NoRequest EXCEPT !.method = method, !.path = pathname,
                                 !.pc = "polling", !.proc = p]

\* Lines 191-192: the awaited poll() resolves and its counters are the body.
PollResponse(p) ==
    /\ http.pc = "polling"
    /\ http.proc = p
    /\ Resolve(p)
    /\ http' = Respond(200, [kind |-> "stats", created |-> poll[p].created,
                             changed |-> poll[p].changed, errors |-> poll[p].errors])

\* The response is sent; the model follows the next request.
Close ==
    /\ http.pc = "responded"
    /\ http' = NoRequest
    /\ UNCHANGED <<env, file, timer, ncycles, poll, upstream, lostUpdate>>

\* ------------------------------------------------------------ specifications
\* The steps that start no poll cycle, with lists of at most N bounties
\* drawn from B.
Step(p, N, B) ==
    \/ \E n \in 0..N : FetchOk(p, n)
    \/ FetchFail(p)
    \/ \E b \in B : NextBounty(p, b)
    \/ ProcessBounty(p)
    \/ \E o \in Outcomes : PostResponse(p, o)
    \/ PostHang(p)
    \/ Save(p)
    \/ SaveFail(p)
    \/ Return(p)

\* Poll cycles start whenever their trigger fires: they overlap.
Next ==
    \E p \in Procs :
        \/ ncycles < MaxRaceCycles /\ StartupPoll(p)
        \/ ncycles < MaxRaceCycles /\ TimerTick(p)
        \/ ncycles < MaxRaceCycles /\ ManualPoll(p)
        \/ Step(p, MaxRaceLen, RaceBounties)

Spec == Init /\ [][Next]_vars

\* No poll cycle is running.
Quiet == \A q \in Procs : poll[q].pc = "idle"

\* The runs in which every trigger fires between two poll cycles.
SeqNext ==
    \E p \in Procs :
        \/ Quiet /\ StartupPoll(p)
        \/ Quiet /\ TimerTick(p)
        \/ Quiet /\ ManualPoll(p)
        \/ Step(p, MaxLen, Bounties)

SeqSpec == Init /\ [][SeqNext]_vars

\* The upstream serves the same list to every GET of the run.
FixedInit ==
    /\ env \in Envs
    /\ file = MissingFile
    /\ timer = "unstarted"
    /\ ncycles = 0
    /\ poll = [p \in Procs |-> Idle]
    /\ upstream \in BountyLists
    /\ lostUpdate = FALSE
    /\ http = NoRequest

FixedSpec == FixedInit /\ [][SeqNext]_vars

\* State files an earlier run of the process can have left, possibly under
\* another configuration.
PriorFiles ==
    { MissingFile, CorruptFile,
      JsonFile([x \in {"2"} |-> "open"]),
      JsonFile([x \in {"1", "2"} |-> "claimed"]) }

\* The process starts on such a file, and the upstream serves one list.
PriorInit ==
    /\ env \in Envs
    /\ file \in PriorFiles
    /\ timer = "unstarted"
    /\ ncycles = 0
    /\ poll = [p \in Procs |-> Idle]
    /\ upstream \in BountyLists
    /\ lostUpdate = FALSE
    /\ http = NoRequest

PriorSpec == PriorInit /\ [][SeqNext]_vars

\* Every continuation runs once what it awaits has settled; a request that
\* never settles (PostHang) leaves nothing to run.
LiveSpec == FixedSpec /\ WF_vars(SeqNext)

\* The server and its requests, one followed at a time, next to the poll
\* cycles of the startup and of POST /poll.
HttpNext ==
    \/ \E method \in Methods, pathname \in Paths : Request(method, pathname)
    \/ \E o \in ProxyOutcomes : ProxyResponse(o)
    \/ Close
    \/ \E p \in Procs :
          \/ ncycles < MaxRaceCycles /\ Quiet /\ StartupPoll(p)
          \/ \E method \in Methods, pathname \in Paths :
                ncycles < MaxRaceCycles /\ Quiet /\ PollRequest(p, method, pathname)
          \/ PollResponse(p)
          \/ Step(p, MaxRaceLen, RaceBounties)

HttpSpec == Init /\ [][HttpNext]_vars

TypeOK ==
    /\ env \in Envs
    /\ file.kind \in {"missing", "corrupt", "json"}
    /\ timer \in {"unstarted", "initial", "armed"}
    /\ ncycles \in 0..MaxCycles
    /\ \A p \in Procs :
          /\ poll[p].pc \in {"idle", "fetching", "loop", "body", "posting", "hung", "done"}
          /\ poll[p].errors \in {0, 1}

\* ===================================================================== claims
\* The activation p takes a step.
Steps(p) == poll'[p] # poll[p]

\* The activation p is about to run the loop's body on its bounty.
AtBounty(p) == poll[p].pc = "body"

\* The ids the running cycles have POSTed about.
PostedIds == {post.id : post \in UNION {DOMAIN poll[p].posts : p \in Procs}}

\* C1: when two poll cycles that do not overlap fetch the same list L and
\* the second loads the state the first saved, the second cycle returns
\* created = 0 and changed = 0.  (Under FixedSpec every GET returns the same
\* list, cycles do not overlap, and a parseable state file is one that a
\* cycle of the run saved.)
C1_SecondPollFindsNothing ==
    \A p \in Procs :
        (poll[p].pc = "done" /\ poll[p].errors = 0 /\ poll[p].src = "json")
            => (poll[p].created = 0 /\ poll[p].changed = 0)

\* C2: a bounty that passes the filter and whose id is absent from the state
\* is classified as created whatever its status: the status is recorded,
\* the only event POSTed for it is bounty.created, and created is
\* incremented (and changed is not).
C2_AbsentIsCreated ==
    [][\A p \in Procs :
        LET a == poll[p]
            b == Cur(a)
            n == poll'[p]
        IN  /\ (AtBounty(p) /\ Steps(p) /\ matchesFilters(b, env)
                  /\ b.id \notin DOMAIN a.st)
               => /\ Get(n.st, b.id) = b.status
                  /\ n.changed = a.changed
                  /\ IF Len(env.WEBHOOK_URLS) = 0
                     THEN n.created = a.created + 1 /\ n.posts = a.posts
                     ELSE /\ n.pc = "posting" /\ n.ev = "bounty.created"
                          /\ n.created = a.created
                          /\ n.posts = Sent(a.posts, [event |-> "bounty.created", id |-> b.id,
                                                      url |-> env.WEBHOOK_URLS[1]])
            \* the dispatch of a new bounty: every POST carries the same event
            \* and, when fireWebhook returns, created is incremented
            /\ (a.pc = "posting" /\ Steps(p) /\ a.branch = "new" /\ n.pc # "hung")
               => /\ a.ev = "bounty.created"
                  /\ n.st = a.st /\ n.changed = a.changed
                  /\ IF n.pc = "posting"
                     THEN /\ n.ev = a.ev /\ n.branch = a.branch /\ n.created = a.created
                          /\ n.posts = Sent(a.posts, [event |-> "bounty.created", id |-> b.id,
                                                      url |-> env.WEBHOOK_URLS[n.j]])
                     ELSE n.pc = "loop" /\ n.created = a.created + 1 /\ n.posts = a.posts
    ]_vars

\* C2 witness: a bounty first seen as completed has been counted as created,
\* bounty.created has been POSTed for it and bounty.completed has not.
C2_Witness ==
    \E p \in Procs :
        /\ poll[p].pc = "done" /\ poll[p].created = 1 /\ poll[p].errors = 0
        /\ poll[p].loaded = EmptyState /\ poll[p].st = [x \in {"1"} |-> "completed"]
        /\ \E post \in DOMAIN poll[p].posts : post.event = "bounty.created"
        /\ \A post \in DOMAIN poll[p].posts : post.event # "bounty.completed"

\* C3: a bounty that passes the filter and is in the state with a status
\* other than the fetched one, s, with s in the status -> event table, gives
\* one dispatch of the event of s (when destinations are configured), the
\* stored status becomes s and changed is incremented by one.
C3_ChangedIsMapped ==
    [][\A p \in Procs :
        LET a == poll[p]
            b == Cur(a)
            n == poll'[p]
        IN  (AtBounty(p) /\ Steps(p) /\ matchesFilters(b, env)
               /\ b.id \in DOMAIN a.st /\ a.st[b.id] # b.status
               /\ STATUS_TO_EVENT(b.status) # Undefined)
            => /\ n.created = a.created
               /\ IF Len(env.WEBHOOK_URLS) = 0
                  THEN /\ Get(n.st, b.id) = b.status
                       /\ n.changed = a.changed + 1
                       /\ n.posts = a.posts
                  ELSE /\ n.pc = "posting" /\ n.ev = STATUS_TO_EVENT(b.status)
                       /\ n.branch = "changed"
                       /\ n.posts = Sent(a.posts, [event |-> STATUS_TO_EVENT(b.status),
                                                   id |-> b.id, url |-> env.WEBHOOK_URLS[1]])
    ]_vars

\* C4: when the fetch of a poll cycle fails, poll() returns created = 0,
\* changed = 0, errors = 1, has POSTed nothing, has not written the state
\* file, and the file is as it was when the cycle loaded it.
C4_FetchFailure ==
    \A p \in Procs :
        (poll[p].pc = "done" /\ ~poll[p].fetched)
            => /\ poll[p].created = 0 /\ poll[p].changed = 0 /\ poll[p].errors = 1
               /\ poll[p].posted = 0 /\ poll[p].posts = NoPosts /\ poll[p].writes = 0
               /\ file = [kind |-> poll[p].src, bounties |-> poll[p].loaded]

\* C4 witness: a fetch failed in a cycle that loaded a non-empty state.
C4_Witness ==
    \E p \in Procs :
        /\ poll[p].pc = "done" /\ ~poll[p].fetched
        /\ poll[p].errors = 1
        /\ file.kind = "json" /\ DOMAIN file.bounties # {}

\* The filter policy as the specification words it: with a non-empty tag
\* set, no tag of the bounty is in it (case-insensitively); or, with a
\* minimum above 0, the reward / 1,000,000 is below the minimum.
FailsPolicy(b) ==
    \/ /\ Len(env.FILTER_TAGS) > 0
       /\ \A i \in 1..Len(b.tags) : \A k \in 1..Len(env.FILTER_TAGS) :
             toLowerCase(b.tags[i]) # toLowerCase(env.FILTER_TAGS[k])
    \/ /\ env.FILTER_MIN_REWARD > 0
       /\ ~Number(b.reward).nan
       /\ Number(b.reward).v < env.FILTER_MIN_REWARD * 1000000

\* No record the upstream has for this id passes the policy.
NeverMatches(id) == \A b \in Bounties : b.id = id => FailsPolicy(b)

\* C5: a fetched bounty that fails the filter policy is skipped entirely:
\* the step changes nothing but the loop position (no state entry, no
\* counter, no POST, no write); and an id none of whose records passes the
\* policy is never in a state record or in the state file and never POSTed.
C5_FilteredIsSkipped ==
    /\ [][\A p \in Procs :
            (AtBounty(p) /\ Steps(p) /\ FailsPolicy(Cur(poll[p])))
                => /\ poll'[p] = [poll[p] EXCEPT !.pc = "loop", !.cur = NoBounty,
                                                  !.skipped = @ + 1]
                   /\ file' = file
       ]_vars
    /\ [](\A id \in Ids :
            NeverMatches(id)
                => /\ id \notin DOMAIN file.bounties
                   /\ id \notin PostedIds
                   /\ \A p \in Procs : id \notin DOMAIN poll[p].st)

\* C5 witness: with a filter configured, a second cycle has again seen a
\* bounty whose id never passes, next to one that does and was stored.
C5_Witness ==
    \E p \in Procs :
        /\ poll[p].pc = "done" /\ poll[p].errors = 0 /\ ncycles >= 2
        /\ poll[p].src = "json" /\ poll[p].skipped > 0
        /\ \E id \in Ids : NeverMatches(id)
        /\ DOMAIN file.bounties # {}

\* C6: poll cycles are not mutually excluded: each loads the state file when
\* it starts, whatever the others are doing, and saves its whole record over
\* whatever the file holds; so an interleaving is reachable (C6_Witness) in
\* which a save made from a stale load reverts an entry another cycle wrote.
C6_LoadAndSaveUnguarded ==
    [][\A p \in Procs :
        LET a == poll[p]
            n == poll'[p]
        IN  /\ (a.pc = "idle" /\ n.pc = "fetching")
               => n.st = loadState(file) /\ file' = file
            /\ (a.pc = "loop" /\ n.pc = "done" /\ n.errors = a.errors)
               => file' = JsonFile(a.st)
    ]_vars

\* C6 witness: the state file after a save that reverted another cycle's
\* update.
C6_Witness == lostUpdate /\ file.kind = "json"

\* The record and the counters after one more bounty, b, as the
\* specification's poll cycle gives them (4.5, step 3) from the record and
\* the counters r before it; made without reference to the destinations.
DiffStep(r, b) ==
    LET prev == Get(r.st, b.id)
    IN  IF ~matchesFilters(b, env) THEN r
        ELSE IF IsFalsy(prev)
        THEN [r EXCEPT !.st = Put(r.st, b.id, b.status), !.created = @ + 1]
        ELSE IF prev # b.status
        THEN [r EXCEPT !.st = Put(r.st, b.id, b.status), !.changed = @ + 1]
        ELSE r

\* What the activation a has computed so far.
Result(a) == [st |-> a.st, created |-> a.created, changed |-> a.changed]

\* What the activation a, awaiting fireWebhook, will have computed when the
\* call returns.
Pending(a) ==
    [st |-> Put(a.st, Cur(a).id, Cur(a).status),
     created |-> a.created + (IF a.branch = "new" THEN 1 ELSE 0),
     changed |-> a.changed + (IF a.branch = "changed" THEN 1 ELSE 0)]

\* C7: whatever the outcome of the POST to one destination, the next
\* destination is POSTed to (fireWebhook returns only after the last one),
\* nothing is POSTed again, no error is counted, and the counters and the
\* record the cycle goes on with, and saves, are those it was going to have
\* before the POST was answered.
C7_FailureIsolated ==
    [][\A p \in Procs :
        LET a == poll[p]
            n == poll'[p]
        IN  /\ (a.pc = "posting" /\ Steps(p) /\ n.pc # "hung")
                => /\ n.errors = a.errors
                   /\ IF a.j < Len(env.WEBHOOK_URLS)
                      THEN /\ n.pc = "posting" /\ n.j = a.j + 1
                           /\ n.sent = Append(a.sent, env.WEBHOOK_URLS[a.j + 1])
                           /\ n.posted = a.posted + 1
                           /\ n.cur = a.cur /\ Pending(n) = Pending(a)
                      ELSE /\ n.pc = "loop" /\ a.sent = env.WEBHOOK_URLS
                           /\ n.posted = a.posted
                           /\ n.left = a.left /\ Result(n) = Pending(a)
            /\ (a.pc = "loop" /\ n.pc = "done" /\ n.errors = 0)
                => file' = JsonFile(a.st) /\ Result(n) = Result(a)
    ]_vars

\* C7 witness: the POST to the first destination has failed and the second
\* destination has been POSTed to, no error counted.
C7_Witness ==
    \E p \in Procs :
        /\ poll[p].pc = "posting" /\ poll[p].errors = 0
        /\ poll[p].failed = {"u1"}
        /\ poll[p].sent = <<"u1", "u2">> /\ poll[p].posted = 2
        /\ \E post \in DOMAIN poll[p].posts : post.url = "u2"

\* C8: the record and the counters a bounty leaves the cycle with are the
\* same function of the record, the counters and the bounty whether or not
\* destinations are configured, and that record is what is saved; with no
\* destination configured no POST is made.
C8_NoDestinations ==
    /\ [][\A p \in Procs :
            LET a == poll[p]
                n == poll'[p]
            IN  /\ (AtBounty(p) /\ Steps(p))
                    => /\ n.pc = (IF Len(env.WEBHOOK_URLS) = 0 THEN "loop" ELSE n.pc)
                       /\ DiffStep(Result(a), Cur(a)) =
                             (IF n.pc = "posting" THEN Pending(n) ELSE Result(n))
                /\ (a.pc = "loop" /\ n.pc = "done" /\ n.errors = 0)
                    => file' = JsonFile(n.st) /\ Result(n) = Result(a)
       ]_vars
    /\ [](Len(env.WEBHOOK_URLS) = 0
            => \A p \in Procs :
                  /\ poll[p].posts = NoPosts /\ poll[p].posted = 0
                  /\ poll[p].pc \notin {"posting", "hung"})

\* C8 witness: without destinations a cycle has counted a changed bounty
\* and saved its new status.
C8_Witness ==
    \E p \in Procs :
        /\ Len(env.WEBHOOK_URLS) = 0
        /\ poll[p].pc = "done" /\ poll[p].errors = 0
        /\ poll[p].changed = 1
        /\ file = JsonFile(poll[p].st) /\ poll[p].st # poll[p].loaded

\* C9: one dispatch POSTs at most once to each destination, whatever the
\* outcomes: the destinations POSTed to by a call of fireWebhook are
\* distinct, and a cycle has made at most one POST per destination for each
\* bounty it has dispatched.
C9_AtMostOnce ==
    \A p \in Procs :
        LET a == poll[p]
            dispatches == a.created + a.changed
                            + (IF a.pc \in {"posting", "hung"} THEN 1 ELSE 0)
        IN  /\ \A i, k \in 1..Len(a.sent) : a.sent[i] = a.sent[k] => i = k
            /\ Len(a.sent) <= Len(env.WEBHOOK_URLS)
            /\ a.posted <= dispatches * Len(env.WEBHOOK_URLS)

\* C9 witness: in the second dispatch of a cycle the POST to the first
\* destination has failed; the cycle has made four POSTs in all.
C9_Witness ==
    \E p \in Procs :
        /\ poll[p].pc = "posting" /\ poll[p].j = 2 /\ "u1" \in poll[p].failed
        /\ poll[p].created + poll[p].changed = 1 /\ poll[p].posted = 4

C11_WrittenOnceAtEnd ==
    /\ [][\A p \in Procs :
            LET a == poll[p]
                n == poll'[p]
            IN  (Steps(p) /\ n.pc # "idle" /\ (file' # file \/ n.writes # a.writes))
                    => /\ a.pc = "loop" /\ a.left = 0 /\ a.fetched
                       /\ n.pc = "done" /\ a.writes = 0 /\ n.writes = 1
       ]_vars
    /\ [](\A p \in Procs :
            /\ poll[p].writes <= 1
            /\ (poll[p].pc = "done" /\ poll[p].fetched) => poll[p].writes = 1
            /\ poll[p].writes = 1 => poll[p].pc = "done")

\* C11 witness: a cycle that found nothing new and nothing changed has
\* written the record it loaded back to the file.
C11_Witness ==
    \E p \in Procs :
        /\ poll[p].pc = "done" /\ poll[p].fetched /\ poll[p].errors = 0
        /\ poll[p].created = 0 /\ poll[p].changed = 0
        /\ poll[p].src = "json" /\ poll[p].loaded # EmptyState
        /\ poll[p].writes = 1 /\ file = JsonFile(poll[p].loaded)

C13_FrontDoor ==
    /\ [][(http.pc = "polling" /\ http'.pc = "responded")
            => /\ poll[http.proc].pc = "done"
               /\ http'.status = 200
               /\ http'.body = [kind |-> "stats", created |-> poll[http.proc].created,
                                changed |-> poll[http.proc].changed,
                                errors |-> poll[http.proc].errors]
       ]_vars
    /\ [](http.pc = "responded"
            => IF http.method = "GET" /\ http.path = "/health"
               THEN http.status = 200 /\ http.body = HealthReport
               ELSE IF http.method = "POST" /\ http.path = "/bounties"
               THEN \/ http.status \in {201, 400} /\ http.body = [kind |-> "upstream"]
                    \/ http.status = 502 /\ http.body.kind = "error"
               ELSE IF http.method = "POST" /\ http.path = "/poll"
               THEN http.status = 200 /\ http.body.kind = "stats"
               ELSE /\ http.status = 404
                    /\ http.body = [kind |-> "error", error |-> "Not found"])

\* C14: a bounty that passes the filter, is in the state and is fetched with
\* another status, one that is not in the status -> event table, gives no
\* POST, its stored status becomes the fetched one and changed is
\* incremented (created is not); met again with that status, as in the
\* next cycle over the same list, it gives no change and no POST.
C14_UnknownStatusChange ==
    [][\A p \in Procs :
        LET a == poll[p]
            b == Cur(a)
            n == poll'[p]
        IN  (AtBounty(p) /\ Steps(p) /\ matchesFilters(b, env)
               /\ b.id \in DOMAIN a.st /\ STATUS_TO_EVENT(b.status) = Undefined)
            => /\ n.pc = "loop" /\ n.posts = a.posts /\ n.created = a.created
               /\ IF a.st[b.id] # b.status
                  THEN n.st = Put(a.st, b.id, b.status) /\ n.changed = a.changed + 1
                  ELSE n.st = a.st /\ n.changed = a.changed
    ]_vars

\* C15: a bounty that passes the filter and whose stored status equals the
\* fetched one, whatever that status is, is passed over: no POST, no
\* counter incremented, the record as it was.
C15_UnchangedIsPassedOver ==
    [][\A p \in Procs :
        LET a == poll[p]
            b == Cur(a)
        IN  (AtBounty(p) /\ Steps(p) /\ matchesFilters(b, env)
               /\ b.id \in DOMAIN a.st /\ a.st[b.id] = b.status)
            => poll'[p] = Advance(a)
    ]_vars

\* C16: a failed write of the state file is reported: the step that ends the
\* loop either leaves the cycle's record in the file or counts an error,
\* so a cycle that returns errors = 0 after a successful fetch has its
\* record in the file, and one whose write failed returns errors = 1.
C16_SaveFailureReported ==
    /\ [][\A p \in Procs :
            LET a == poll[p]
                n == poll'[p]
            IN  (a.pc = "loop" /\ n.pc = "done")
                    => \/ n.errors = 0 /\ file' = JsonFile(a.st)
                       \/ n.errors = 1 /\ a.errors = 0
       ]_vars
    /\ [](\A p \in Procs :
            (poll[p].pc = "done" /\ poll[p].fetched /\ poll[p].errors = 0)
                => file = JsonFile(poll[p].st))

\* C16 witness: a cycle created a bounty and POSTed for it, its write
\* failed, the file does not hold its record and it returns errors = 1.
C16_Witness ==
    \E p \in Procs :
        /\ poll[p].pc = "done" /\ poll[p].fetched /\ poll[p].writes = 1
        /\ poll[p].created = 1 /\ poll[p].posted = 2
        /\ file # JsonFile(poll[p].st)
        /\ poll[p].errors = 1

\* The record r overridden, at the id of every bounty of the list L that
\* passes the filter, with the status of the last such bounty of that id.
Override(r, L) ==
    LET hits(id) == {i \in 1..Len(L) : L[i].id = id /\ matchesFilters(L[i], env)}
        last(id) == CHOOSE i \in hits(id) : \A k \in hits(id) : k <= i
        ids      == {L[i].id : i \in {k \in 1..Len(L) : matchesFilters(L[k], env)}}
    IN  [id \in (DOMAIN r) \cup ids |->
            IF hits(id) # {} THEN L[last(id)].status ELSE r[id]]

\* C17: when a poll cycle that overlaps no other ends without error, the
\* state file holds the record the cycle loaded, overridden at the id of
\* every fetched bounty that passes the filter with its fetched status (the
\* last in list order when an id repeats); the other entries are as they
\* were loaded and none is missing.
C17_SavedIsLoadedOverridden ==
    \A p \in Procs :
        (poll[p].pc = "done" /\ poll[p].fetched /\ poll[p].errors = 0)
            => /\ file = JsonFile(Override(poll[p].loaded, upstream))
               /\ DOMAIN poll[p].loaded \subseteq DOMAIN file.bounties
               /\ \A id \in DOMAIN poll[p].loaded :
                     (\A i \in 1..Len(upstream) :
                         upstream[i].id # id \/ ~matchesFilters(upstream[i], env))
                        => file.bounties[id] = poll[p].loaded[id]

\* C17 witness: the list repeats an id with two statuses, both passing the
\* filter; the loaded record had an entry for an id that is not in the
\* list, which the saved record keeps next to the overridden one.
C17_Witness ==
    \E p \in Procs :
        /\ poll[p].pc = "done" /\ poll[p].fetched /\ poll[p].errors = 0
        /\ Len(upstream) = 2 /\ upstream[1].id = upstream[2].id
        /\ upstream[1].status # upstream[2].status
        /\ matchesFilters(upstream[1], env) /\ matchesFilters(upstream[2], env)
        /\ \E id \in DOMAIN poll[p].loaded :
              /\ id # upstream[1].id
              /\ file.bounties[id] = poll[p].loaded[id]
        /\ upstream[1].id \in DOMAIN poll[p].loaded
        /\ file.bounties[upstream[1].id] = upstream[2].status
        /\ file.bounties # poll[p].loaded

\* How many times the activation a has POSTed bounty.created for id to url.
CreatedPosts(a, id, url) ==
    LET post == [event |-> "bounty.created", id |-> id, url |-> url]
    IN  IF post \in DOMAIN a.posts THEN a.posts[post] ELSE 0

\* C18: over poll cycles that may overlap, while the state file has not been
\* reset (no cycle loaded or left an unparseable file) and the cycles have
\* seen the bounty with one and the same status (it has not gone back to
\* open), bounty.created for one id is POSTed to one destination at most
\* once in all.
C18_CreatedAtMostOnce ==
    \A id \in Ids : \A i \in 1..Len(env.WEBHOOK_URLS) :
        ( /\ file.kind # "corrupt"
          /\ \A p \in Procs : poll[p].src # "corrupt"
          /\ \A p, q \in Procs :
                (id \in DOMAIN poll[p].st /\ id \in DOMAIN poll[q].st)
                    => poll[p].st[id] = poll[q].st[id] )
        => CreatedPosts(poll["p1"], id, env.WEBHOOK_URLS[i])
             + CreatedPosts(poll["p2"], id, env.WEBHOOK_URLS[i]) <= 1

\* C19: the timer is armed by the return of the startup poll, which by then
\* has written the state file or counted an error; a timer-driven cycle
\* starts only with the timer armed, so none runs while the startup cycle
\* does.
C19_StartupBeforeTimer ==
    /\ [](\A p \in Procs :
            poll[p].kind = "startup"
                => timer = "initial" /\ \A q \in Procs : poll[q].kind # "timer")
    /\ [][/\ \A p \in Procs :
               (poll[p].pc = "idle" /\ poll'[p].kind = "timer")
                   => timer = "armed" /\ \A q \in Procs : poll[q].kind # "startup"
          /\ (timer # "armed" /\ timer' = "armed")
               => \E p \in Procs :
                     /\ poll[p].kind = "startup" /\ poll[p].pc = "done"
                     /\ poll[p].writes = 1 \/ poll[p].errors = 1
                     /\ poll'[p].pc = "idle"
       ]_vars

\* C19 witness: a timer-driven cycle is running; the startup cycle has
\* returned and left its record in the file.
C19_Witness ==
    \E p \in Procs :
        /\ poll[p].kind = "timer" /\ poll[p].pc = "posting"
        /\ timer = "armed" /\ ncycles = 2
        /\ file.kind = "json" /\ poll[p].loaded = file.bounties
        /\ \A q \in Procs : poll[q].kind # "startup"

====
